---------------------------- MODULE Spec2Model ----------------------------
(***************************************************************************)
(* Model of the Mouse-Clicker automation engine.                           *)
(*                                                                         *)
(*   src/src/gui/clicker.rs      ClickerThread: start / pause / resume /   *)
(*                               stop and the worker loop                  *)
(*   src/src/gui/app.rs          AppState and the status bar controls      *)
(*   src/src/modules/mouse.rs    area selection, inter-click delay         *)
(*   src/src/modules/config.rs   Config and its area mutators              *)
(*   src/src/gui/views/*.rs      the controller's edits of the shared      *)
(*                               configuration                             *)
(*   src/src/modules/image_recognition.rs                                  *)
(*                               find_on_screen / find_template            *)
(*                                                                         *)
(* Units: delays are whole seconds, weights are hundredths (1.0 = 100).    *)
(* A thread that panics ends with wpc = "panicked" and the panic payload   *)
(* in panic[t] (what JoinHandle::join would return as Err).                *)
(***************************************************************************)
EXTENDS Integers, Sequences, FiniteSets, TLC

(***************************************************************************)
(* Bounds of the model                                                     *)
(***************************************************************************)
\* worker thread slots (the program only ever uses one at a time)
MaxThreads == 2
\* the worker starts no new iteration once click_count has reached this
MaxClicks == 2
\* longest area list the controller builds
MaxAreas == 2

(***************************************************************************)
(* Program constants                                                       *)
(***************************************************************************)
\* ClickTiming::default
DefaultMinDelay == 12
DefaultMaxDelay == 38
\* weight given to a new area (1.0), in hundredths
DefaultWeight == 100
\* Option<JoinHandle>::None
NoThread == 0

Threads == 1..MaxThreads

\* where the dialog's weight slider is left when "Add" is clicked: at the
\* 1.0 it is drawn with each frame (area_view.rs:202)
SliderWeights == {DefaultWeight}

\* values the delay sliders are moved to (both lie in the sliders' ranges)
DelayValues == {DefaultMinDelay, DefaultMaxDelay}

\* Config::default, restricted to the fields the worker reads
DefaultConfig ==
    [ min_delay      |-> DefaultMinDelay,
      max_delay      |-> DefaultMaxDelay,
      areas          |-> << >>,
      selection_mode |-> "Sequential",
      enabled        |-> FALSE ]

\* contents of the profile files found in the profiles directory: one saved
\* from the defaults and one whose JSON holds min_delay > max_delay
ProfileFiles ==
    { DefaultConfig,
      [DefaultConfig EXCEPT !.min_delay = DefaultMaxDelay,
                            !.max_delay = DefaultMinDelay] }

VARIABLES
    \* ---- ClickerThread (clicker.rs:10-14)
    thread_handle,        \* NoThread or the id of the spawned thread
    is_paused,            \* AtomicBool
    should_stop,          \* AtomicBool
    \* ---- AppState behind Arc<Mutex<..>> (app.rs:36-47)
    clicker_status,       \* "Stopped" | "Running" | "Paused"
    click_count,
    start_time,           \* "None" | "Some"
    current_config,
    mutex,                \* who holds the AppState lock: "free" | "controller" | "worker"
    \* ---- the controller thread (GUI frame / API caller)
    ctl_pc,
    join_handle,          \* the handle taken at clicker.rs:141, while joining
    \* ---- worker threads, per thread id
    wpc,                  \* position in the closure of clicker.rs:44-118
    current_area_index,   \* clicker.rs:48
    config,               \* the snapshot cloned at clicker.rs:55-61
    area,                 \* index of the area chosen (0: the primary click_area)
    sleep_duration,       \* mouse.rs:282
    panic,                \* panic payload of a thread that died
    move_failed,          \* whether a pointer move of the iteration failed
    count_read,           \* the click_count read by `click_count += 1`
    \* ---- history
    paused_clicks,        \* increments of click_count since the last pause()
    delay_cut,            \* history: the last delay between clicks ended
                          \* before its time was up, on the pause flag
    completed,            \* history: iterations completed since click_count
                          \* was last set to 0
    visits,               \* areas chosen by consecutive Sequential selections
                          \* over an unchanged multi-area configuration
    \* ---- one call of ImageLibrary::find_on_screen (image_recognition.rs:167-362)
    find_pc,              \* position in find_on_screen / find_template
    screen_dim,           \* <<width, height>> of the screenshot
    template_dim,         \* <<width, height>> of the target image
    threshold,            \* target.threshold, in hundredths
    scale_index,          \* index into Scales of the scale the loop is at
    scores,               \* best correlation found at each scale (hundredths),
                          \* NotEvaluated for a scale not (yet) evaluated
    global_best_match,    \* image_recognition.rs:240
    find_result,          \* what find_template returned
    on_screen_result,     \* what find_on_screen returned
    scored,               \* history: best_match of every scale scanned so far
    images,               \* the pixels of the template and of the screen, or
                          \* NoPixels when only the dimensions are modelled
    \* ---- one call of a function of mouse.rs
    fn_call,              \* the function and its arguments
    fn_result             \* "pending", or what the call returned / how it panicked

ctlVars    == <<thread_handle, is_paused, should_stop, ctl_pc, join_handle>>
stateVars  == <<clicker_status, click_count, start_time, current_config, mutex>>
workerVars == <<wpc, current_area_index, config, area, sleep_duration, panic,
               move_failed, count_read>>
histVars   == <<paused_clicks, visits, completed, delay_cut>>
appVars    == <<ctlVars, stateVars, workerVars, histVars>>
matchVars  == <<find_pc, screen_dim, template_dim, threshold, scale_index,
                scores, global_best_match, find_result, on_screen_result,
                scored, images>>
fnVars     == <<fn_call, fn_result>>
libVars    == <<matchVars, fnVars>>
vars       == <<appVars, libVars>>

Finished == {"exited", "panicked"}
Alive(t) == wpc[t] \notin (Finished \cup {"none"})

(***************************************************************************)
(* ClickerThread::new and AppState::default                                *)
(***************************************************************************)
AppInit ==
    /\ thread_handle = NoThread
    /\ is_paused = FALSE
    /\ should_stop = FALSE
    /\ clicker_status = "Stopped"
    /\ click_count = 0
    /\ start_time = "None"
    /\ current_config = DefaultConfig
    /\ mutex = "free"
    /\ ctl_pc = "idle"
    /\ join_handle = NoThread
    /\ wpc = [t \in Threads |-> "none"]
    /\ current_area_index = [t \in Threads |-> 0]
    /\ config = [t \in Threads |-> DefaultConfig]
    /\ area = [t \in Threads |-> 0]
    /\ sleep_duration = [t \in Threads |-> 0]
    /\ panic = [t \in Threads |-> "none"]
    /\ move_failed = [t \in Threads |-> FALSE]
    /\ count_read = [t \in Threads |-> 0]
    /\ completed = 0
    /\ delay_cut = FALSE
    /\ paused_clicks = 0
    /\ visits = [t \in Threads |-> << >>]

\* no template search under way
MatchIdle ==
    /\ find_pc = "idle"
    /\ screen_dim = <<0, 0>>
    /\ template_dim = <<0, 0>>
    /\ threshold = 0
    /\ scale_index = 0
    /\ scores = << >>
    /\ global_best_match = << >>
    /\ find_result = "pending"
    /\ on_screen_result = "pending"
    /\ scored = {}
    /\ images = [kind |-> "none"]

\* no function call under way
FnIdle ==
    /\ fn_call = [fn |-> "none"]
    /\ fn_result = [state |-> "pending"]

Init == AppInit /\ MatchIdle /\ FnIdle


(***************************************************************************)
(* The worker loop, clicker.rs:44-118.  t is the spawned thread.           *)
(***************************************************************************)

\* while !should_stop.load(..)                               clicker.rs:51,116-117
\* (the worker starts no iteration beyond MaxClicks: the bound of the model)
WorkerCheckStop(t) ==
    /\ wpc[t] = "loop"
    /\ IF should_stop
         THEN wpc' = [wpc EXCEPT ![t] = "exited"]
         ELSE /\ click_count < MaxClicks
              /\ wpc' = [wpc EXCEPT ![t] = "check_pause"]
    /\ UNCHANGED <<count_read, move_failed, ctlVars, stateVars, histVars,
                   current_area_index, config, area, sleep_duration, panic>>
    /\ UNCHANGED libVars

\* a worker whose iteration does not look at the pause flag
WorkerIgnorePause(t) ==
    /\ wpc[t] = "check_pause"
    /\ wpc' = [wpc EXCEPT ![t] = "lock_config"]
    /\ UNCHANGED <<count_read, move_failed, ctlVars, stateVars, histVars,
                   current_area_index, config, area, sleep_duration, panic>>
    /\ UNCHANGED libVars

\* if !is_paused.load(..) { .. } else { .. }                 clicker.rs:52,112
WorkerCheckPause(t) ==
    /\ wpc[t] = "check_pause"
    /\ wpc' = [wpc EXCEPT ![t] = IF is_paused THEN "pause_wait" ELSE "lock_config"]
    /\ UNCHANGED <<count_read, move_failed, ctlVars, stateVars, histVars,
                   current_area_index, config, area, sleep_duration, panic>>
    /\ UNCHANGED libVars

\* a pause wait that goes back to the pause flag, past the loop condition
WorkerPauseNoStopCheck(t) ==
    /\ wpc[t] = "pause_wait"
    /\ wpc' = [wpc EXCEPT ![t] = "check_pause"]
    /\ UNCHANGED <<count_read, move_failed, ctlVars, stateVars, histVars,
                   current_area_index, config, area, sleep_duration, panic>>
    /\ UNCHANGED libVars

\* a pause wait after which the iteration starts at once
WorkerPauseWaitThenClick(t) ==
    /\ wpc[t] = "pause_wait"
    /\ wpc' = [wpc EXCEPT ![t] = "lock_config"]
    /\ UNCHANGED <<count_read, move_failed, ctlVars, stateVars, histVars,
                   current_area_index, config, area, sleep_duration, panic>>
    /\ UNCHANGED libVars

\* thread::sleep(100 ms), then the top of the loop            clicker.rs:113-115
WorkerPauseWait(t) ==
    /\ wpc[t] = "pause_wait"
    /\ wpc' = [wpc EXCEPT ![t] = "loop"]
    /\ UNCHANGED <<count_read, move_failed, ctlVars, stateVars, histVars,
                   current_area_index, config, area, sleep_duration, panic>>
    /\ UNCHANGED libVars

\* app_state_clone.lock()                                     clicker.rs:55
WorkerLockConfig(t) ==
    /\ wpc[t] = "lock_config"
    /\ mutex = "free"
    /\ mutex' = "worker"
    /\ wpc' = [wpc EXCEPT ![t] = "clone_config"]
    /\ UNCHANGED <<count_read, move_failed, ctlVars, histVars, clicker_status, click_count, start_time,
                   current_config,
                   current_area_index, config, area, sleep_duration, panic>>
    /\ UNCHANGED libVars

\* a snapshot whose guard is kept after the clone
WorkerCloneConfigKeepsGuard(t) ==
    /\ wpc[t] = "clone_config"
    /\ config' = [config EXCEPT ![t] = current_config]
    /\ wpc' = [wpc EXCEPT ![t] = "select"]
    /\ UNCHANGED <<ctlVars, stateVars, histVars, count_read, move_failed,
                   current_area_index, area, sleep_duration, panic>>
    /\ UNCHANGED libVars

\* Ok(state) => state.current_config.clone(); the guard is dropped
\* at the end of the match                                    clicker.rs:55-61
WorkerCloneConfig(t) ==
    /\ wpc[t] = "clone_config"
    /\ config' = [config EXCEPT ![t] = current_config]
    /\ mutex' = "free"
    /\ wpc' = [wpc EXCEPT ![t] = "select"]
    /\ visits' = [visits EXCEPT ![t] =
                    IF /\ current_config.areas = config[t].areas
                       /\ current_config.enabled = config[t].enabled
                       /\ current_config.selection_mode = config[t].selection_mode
                      THEN @ ELSE << >>]
    /\ UNCHANGED <<delay_cut, completed, count_read, move_failed, ctlVars, clicker_status, click_count, start_time,
                   current_config, paused_clicks,
                   current_area_index, area, sleep_duration, panic>>
    /\ UNCHANGED libVars


(***************************************************************************)
(* Area selection, mouse.rs:36-93                                          *)
(***************************************************************************)
RECURSIVE SumWeights(_)
SumWeights(ws) ==
    IF ws = << >> THEN 0 ELSE Head(ws) + SumWeights(Tail(ws))

\* rng.gen_range(lo..hi): the values a draw can return; none when the
\* range is empty, where rand panics ("cannot sample empty range")
GenRangeInclusive(lo, hi) ==
    IF lo >= hi THEN {} ELSE {lo, lo + (hi - lo) \div 2, hi}

GenRange(lo, hi) ==
    IF lo >= hi THEN {} ELSE {lo, lo + (hi - lo) \div 2, hi - 1}

\* the walk of mouse.rs:74-82: the first index i whose weight is >= what is
\* left of the draw; selected_index keeps its initial 0 (the first entry)
\* when no entry breaks the loop
RECURSIVE WeightedWalk(_, _, _)
WeightedWalk(ws, i, random_value) ==
    IF i > Len(ws) THEN 1
    ELSE IF random_value <= ws[i] THEN i
    ELSE WeightedWalk(ws, i + 1, random_value - ws[i])

\* the outcomes of one selection for a snapshot cfg and a cursor: the area
\* chosen (0 is the primary click_area), the cursor afterwards, and the panic
\* payload when the selection panics
Outcome(a, c, p) == [area |-> a, index |-> c, panic |-> p]

get_next_click_area(cfg, current_index) ==
    IF ~cfg.enabled \/ cfg.areas = << >>
      THEN {Outcome(0, current_index, "none")}
    ELSE IF cfg.selection_mode = "Sequential"
      THEN IF current_index >= Len(cfg.areas)
             THEN {Outcome(0, current_index, "index out of bounds (mouse.rs:50)")}
             ELSE {Outcome(current_index + 1,
                           (current_index + 1) % Len(cfg.areas), "none")}
    ELSE IF cfg.selection_mode = "Random"
      THEN {Outcome(i, current_index, "none") : i \in 1..Len(cfg.areas)}
    ELSE IF SumWeights(cfg.areas) <= 0
      THEN {Outcome(0, current_index, "cannot sample empty range (mouse.rs:71)")}
      ELSE {Outcome(WeightedWalk(cfg.areas, 1, r), current_index, "none") :
                r \in 0..(SumWeights(cfg.areas) - 1)}

\* clicker.rs:64-72 (the selection) and 77-83 (the point inside the area,
\* whose width and height the area view keeps >= 10)
WorkerSelectArea(t) ==
    /\ wpc[t] = "select"
    /\ \E o \in get_next_click_area(config[t], current_area_index[t]) :
         /\ area' = [area EXCEPT ![t] = o.area]
         /\ current_area_index' = [current_area_index EXCEPT ![t] = o.index]
         /\ panic' = [panic EXCEPT ![t] = o.panic]
         /\ wpc' = [wpc EXCEPT ![t] = IF o.panic = "none" THEN "move" ELSE "panicked"]
         /\ visits' = [visits EXCEPT ![t] =
                IF /\ o.panic = "none" /\ o.area > 0
                   /\ config[t].selection_mode = "Sequential"
                  THEN IF Len(@) < Len(config[t].areas)
                         THEN Append(@, o.area)
                         ELSE Append(Tail(@), o.area)
                  ELSE << >>]
    /\ UNCHANGED <<delay_cut, completed, count_read, move_failed, ctlVars, stateVars, paused_clicks, config, sleep_duration>>
    /\ UNCHANGED libVars

\* simulate_human_movement: a step whose safe_move_mouse fails is logged and
\* skipped (`continue` of the for loop), and the function returns Ok(()) on
\* every path                                               mouse.rs:129-178
simulate_human_movement(failed) == "Ok"

\* if let Err(e) = simulate_human_movement(..) { continue; } clicker.rs:88-91
WorkerMove(t) ==
    /\ wpc[t] = "move"
    /\ \E failed \in BOOLEAN :
         /\ move_failed' = [move_failed EXCEPT ![t] = failed]
         /\ wpc' = [wpc EXCEPT ![t] =
                IF simulate_human_movement(failed) = "Err" THEN "loop" ELSE "click"]
    /\ UNCHANGED <<count_read, ctlVars, stateVars, histVars,
                   current_area_index, config, area, sleep_duration, panic>>
    /\ UNCHANGED libVars

\* human_like_click: press, hold, release                      clicker.rs:94-97
WorkerClick(t) ==
    /\ wpc[t] = "click"
    /\ wpc' = [wpc EXCEPT ![t] = "lock_count"]
    /\ UNCHANGED <<count_read, move_failed, ctlVars, stateVars, histVars,
                   current_area_index, config, area, sleep_duration, panic>>
    /\ UNCHANGED libVars

\* if let Ok(mut state) = app_state_clone.lock()               clicker.rs:100
WorkerLockCount(t) ==
    /\ wpc[t] = "lock_count"
    /\ mutex = "free"
    /\ mutex' = "worker"
    /\ wpc' = [wpc EXCEPT ![t] = "incr_count"]
    /\ UNCHANGED <<move_failed, count_read, ctlVars, histVars, clicker_status, click_count, start_time,
                   current_config,
                   current_area_index, config, area, sleep_duration, panic>>
    /\ UNCHANGED libVars

\* state.click_count += 1: the read of the counter            clicker.rs:101
WorkerReadCount(t) ==
    /\ wpc[t] = "incr_count"
    /\ count_read' = [count_read EXCEPT ![t] = click_count]
    /\ wpc' = [wpc EXCEPT ![t] = "write_count"]
    /\ UNCHANGED <<ctlVars, stateVars, histVars, move_failed,
                   current_area_index, config, area, sleep_duration, panic>>
    /\ UNCHANGED libVars

\* state.click_count += 1: the write; the guard is dropped   clicker.rs:101-105
WorkerIncrCount(t) ==
    /\ wpc[t] = "write_count"
    /\ click_count' = count_read[t] + 1
    /\ count_read' = [count_read EXCEPT ![t] = 0]
    /\ completed' = completed + 1
    /\ mutex' = "free"
    /\ paused_clicks' = IF is_paused /\ paused_clicks < MaxClicks
                          THEN paused_clicks + 1 ELSE paused_clicks
    /\ wpc' = [wpc EXCEPT ![t] = "sleep_draw"]
    /\ move_failed' = [move_failed EXCEPT ![t] = FALSE]
    /\ UNCHANGED <<delay_cut, ctlVars, clicker_status, start_time, current_config, visits,
                   current_area_index, config, area, sleep_duration, panic>>
    /\ UNCHANGED libVars

(***************************************************************************)
(* handle_sleep_period, mouse.rs:275-297                                   *)
(***************************************************************************)
\* rng.gen_range(min_delay..max_delay)                         mouse.rs:282-285
WorkerSleepDraw(t) ==
    /\ wpc[t] = "sleep_draw"
    /\ LET draws == GenRange(config[t].min_delay, config[t].max_delay) IN
         IF draws = {}
           THEN /\ wpc' = [wpc EXCEPT ![t] = "panicked"]
                /\ panic' = [panic EXCEPT ![t] = "cannot sample empty range (mouse.rs:283)"]
                /\ UNCHANGED sleep_duration
           ELSE /\ \E d \in draws :
                     sleep_duration' = [sleep_duration EXCEPT ![t] = d]
                /\ wpc' = [wpc EXCEPT ![t] = "sleep_check"]
                /\ UNCHANGED panic
    /\ delay_cut' = FALSE
    /\ UNCHANGED <<count_read, move_failed, ctlVars, stateVars,
                   paused_clicks, visits, completed,
                   current_area_index, config, area>>
    /\ UNCHANGED libVars

\* a delay loop that does not look at the pause flag
WorkerSleepIgnoresPause(t) ==
    /\ wpc[t] = "sleep_check"
    /\ \E elapsed \in BOOLEAN :
         IF elapsed \/ should_stop
           THEN /\ wpc' = [wpc EXCEPT ![t] = "loop"]
                /\ sleep_duration' = [sleep_duration EXCEPT ![t] = 0]
           ELSE /\ wpc' = [wpc EXCEPT ![t] = "sleep_tick"]
                /\ UNCHANGED sleep_duration
    /\ UNCHANGED <<count_read, move_failed, ctlVars, stateVars, histVars,
                   current_area_index, config, area, panic>>
    /\ UNCHANGED libVars

\* while sleep_start.elapsed() < sleep_duration && !is_paused && !should_quit
\* (whether the time is up is left open)                       mouse.rs:287-290
WorkerSleepCheck(t) ==
    /\ wpc[t] = "sleep_check"
    /\ \E elapsed \in BOOLEAN :
         IF elapsed \/ is_paused \/ should_stop
           THEN /\ wpc' = [wpc EXCEPT ![t] = "loop"]
                /\ sleep_duration' = [sleep_duration EXCEPT ![t] = 0]
                /\ delay_cut' = (~elapsed /\ is_paused)
           ELSE /\ wpc' = [wpc EXCEPT ![t] = "sleep_tick"]
                /\ UNCHANGED <<sleep_duration, delay_cut>>
    /\ UNCHANGED <<count_read, move_failed, ctlVars, stateVars,
                   paused_clicks, visits, completed,
                   current_area_index, config, area, panic>>
    /\ UNCHANGED libVars

\* thread::sleep(100 ms); simulate_idle_movement               mouse.rs:291-294
WorkerSleepTick(t) ==
    /\ wpc[t] = "sleep_tick"
    /\ wpc' = [wpc EXCEPT ![t] = "sleep_check"]
    /\ UNCHANGED <<count_read, move_failed, ctlVars, stateVars, histVars,
                   current_area_index, config, area, sleep_duration, panic>>
    /\ UNCHANGED libVars

Worker(t) ==
    \/ WorkerCheckStop(t)
    \/ WorkerCheckPause(t)
    \/ WorkerPauseWait(t)
    \/ WorkerLockConfig(t)
    \/ WorkerCloneConfig(t)
    \/ WorkerSelectArea(t)
    \/ WorkerMove(t)
    \/ WorkerClick(t)
    \/ WorkerLockCount(t)
    \/ WorkerReadCount(t)
    \/ WorkerIncrCount(t)
    \/ WorkerSleepDraw(t)
    \/ WorkerSleepCheck(t)
    \/ WorkerSleepTick(t)


(***************************************************************************)
(* ClickerThread's methods, clicker.rs:25-153.  The caller is at `from`    *)
(* and goes on at `to` when the method returns.                            *)
(***************************************************************************)

\* the slot of the thread that thread::spawn creates
FreshThread == CHOOSE t \in Threads : ~Alive(t) /\ \A u \in Threads : ~Alive(u) => t <= u

\* clicker.rs:34-118: reset the flags, spawn the worker, keep its handle
Spawn ==
    /\ \E t \in Threads : ~Alive(t)
    /\ is_paused' = FALSE
    /\ should_stop' = FALSE
    /\ thread_handle' = FreshThread
    /\ wpc' = [wpc EXCEPT ![FreshThread] = "loop"]
    /\ current_area_index' = [current_area_index EXCEPT ![FreshThread] = 0]
    /\ config' = [config EXCEPT ![FreshThread] = DefaultConfig]
    /\ area' = [area EXCEPT ![FreshThread] = 0]
    /\ sleep_duration' = [sleep_duration EXCEPT ![FreshThread] = 0]
    /\ panic' = [panic EXCEPT ![FreshThread] = "none"]
    /\ move_failed' = [move_failed EXCEPT ![FreshThread] = FALSE]
    /\ count_read' = [count_read EXCEPT ![FreshThread] = 0]
    /\ delay_cut' = FALSE
    /\ UNCHANGED completed
    /\ visits' = [visits EXCEPT ![FreshThread] = << >>]
    /\ paused_clicks' = 0

\* start without the check of clicker.rs:27-30
StartUnchecked(from) ==
    /\ ctl_pc = from
    /\ Spawn
    /\ ctl_pc' = "start_lock"
    /\ UNCHANGED <<stateVars, join_handle>>
    /\ UNCHANGED libVars

\* ClickerThread::start up to the spawn                        clicker.rs:25-118
start(from) ==
    /\ ctl_pc = from
    /\ IF thread_handle # NoThread
         THEN /\ ctl_pc' = "already_running"
              /\ UNCHANGED <<thread_handle, is_paused, should_stop, join_handle,
                             stateVars, workerVars, histVars>>
         ELSE /\ Spawn
              /\ ctl_pc' = "start_lock"
              /\ UNCHANGED <<stateVars, join_handle>>
    /\ UNCHANGED libVars

\* println!("Clicker thread is already running"); return     clicker.rs:28-29
StartReturn ==
    /\ ctl_pc = "already_running"
    /\ ctl_pc' = "idle"
    /\ UNCHANGED <<thread_handle, is_paused, should_stop, join_handle,
                   stateVars, workerVars, histVars>>
    /\ UNCHANGED libVars

\* ClickerThread::start after the spawn: lock, set the status and the start
\* time, unlock on return                                     clicker.rs:120-125
StartUpdate ==
    /\ ctl_pc = "start_lock"
    /\ mutex = "free"
    /\ clicker_status' = "Running"
    /\ start_time' = "Some"
    /\ ctl_pc' = "idle"
    /\ UNCHANGED <<thread_handle, is_paused, should_stop, join_handle,
                   click_count, current_config, mutex, workerVars, histVars>>
    /\ UNCHANGED libVars

\* ClickerThread::pause                                       clicker.rs:127-129
pause(from, to) ==
    /\ ctl_pc = from
    /\ is_paused' = TRUE
    /\ paused_clicks' = 0
    /\ ctl_pc' = to
    /\ UNCHANGED <<delay_cut, completed, thread_handle, should_stop, join_handle,
                   stateVars, workerVars, visits>>
    /\ UNCHANGED libVars

\* ClickerThread::resume                                      clicker.rs:131-133
resume(from, to) ==
    /\ ctl_pc = from
    /\ is_paused' = FALSE
    /\ paused_clicks' = 0
    /\ ctl_pc' = to
    /\ UNCHANGED <<delay_cut, completed, thread_handle, should_stop, join_handle,
                   stateVars, workerVars, visits>>
    /\ UNCHANGED libVars

\* ClickerThread::stop up to the join                         clicker.rs:135-141
StopUnchecked(from, joining, to) ==
    /\ ctl_pc = from
    /\ should_stop' = TRUE
    /\ IF thread_handle # NoThread
         THEN /\ join_handle' = thread_handle
              /\ thread_handle' = NoThread
              /\ ctl_pc' = joining
         ELSE /\ ctl_pc' = to
              /\ UNCHANGED <<join_handle, thread_handle>>
    /\ UNCHANGED <<is_paused, stateVars, workerVars, histVars>>
    /\ UNCHANGED libVars

\* a stop that also clears the pause flag
StopClearsPause(from, joining, to) ==
    /\ ctl_pc = from
    /\ is_paused' = FALSE
    /\ IF thread_handle # NoThread
         THEN /\ should_stop' = TRUE
              /\ join_handle' = thread_handle
              /\ thread_handle' = NoThread
              /\ ctl_pc' = joining
         ELSE /\ ctl_pc' = to
              /\ UNCHANGED <<should_stop, join_handle, thread_handle>>
    /\ UNCHANGED <<stateVars, workerVars, histVars>>
    /\ UNCHANGED libVars

stop(from, joining, to) ==
    /\ ctl_pc = from
    /\ IF thread_handle # NoThread
         THEN /\ should_stop' = TRUE
              /\ join_handle' = thread_handle
              /\ thread_handle' = NoThread
              /\ ctl_pc' = joining
         ELSE /\ ctl_pc' = to
              /\ UNCHANGED <<should_stop, join_handle, thread_handle>>
    /\ UNCHANGED <<is_paused, stateVars, workerVars, histVars>>
    /\ UNCHANGED libVars

\* ClickerThread::is_running                                clicker.rs:145-147
is_running == thread_handle # NoThread /\ ~should_stop

\* a stop that does not wait for the thread
JoinWithoutWaiting(joining, to) ==
    /\ ctl_pc = joining
    /\ join_handle' = NoThread
    /\ ctl_pc' = to
    /\ UNCHANGED <<thread_handle, is_paused, should_stop,
                   stateVars, workerVars, histVars>>
    /\ UNCHANGED libVars

\* handle.join(): returns once the thread has ended            clicker.rs:142
join(joining, to) ==
    /\ ctl_pc = joining
    /\ wpc[join_handle] \in Finished
    /\ join_handle' = NoThread
    /\ ctl_pc' = to
    /\ UNCHANGED <<thread_handle, is_paused, should_stop,
                   stateVars, workerVars, histVars>>
    /\ UNCHANGED libVars


(***************************************************************************)
(* The status bar of MouseClickerApp::update, app.rs:327-394               *)
(***************************************************************************)

\* let state = self.state.lock().unwrap()                      app.rs:335
StatusBarLock ==
    /\ ctl_pc = "idle"
    /\ mutex = "free"
    /\ mutex' = "controller"
    /\ ctl_pc' = "status_bar"
    /\ UNCHANGED <<thread_handle, is_paused, should_stop, join_handle,
                   clicker_status, click_count, start_time, current_config,
                   workerVars, histVars>>
    /\ UNCHANGED libVars

\* let status = state.clicker_status; drop(state)              app.rs:347-348
StatusBarDrop ==
    /\ ctl_pc = "status_bar"
    /\ mutex' = "free"
    /\ ctl_pc' = "controls"
    /\ UNCHANGED <<thread_handle, is_paused, should_stop, join_handle,
                   clicker_status, click_count, start_time, current_config,
                   workerVars, histVars>>
    /\ UNCHANGED libVars

\* the frame ends with no button clicked
NoButton ==
    /\ ctl_pc = "controls"
    /\ ctl_pc' = "idle"
    /\ UNCHANGED <<thread_handle, is_paused, should_stop, join_handle,
                   stateVars, workerVars, histVars>>
    /\ UNCHANGED libVars

\* "Start"                                                     app.rs:351-357
StartButton ==
    /\ clicker_status = "Stopped"
    /\ start("controls")

\* "Pause"                                                     app.rs:359-363
PauseButton ==
    /\ clicker_status = "Running"
    /\ pause("controls", "pause_update")

PauseUpdate ==
    /\ ctl_pc = "pause_update"
    /\ mutex = "free"
    /\ clicker_status' = "Paused"
    /\ ctl_pc' = "idle"
    /\ UNCHANGED <<thread_handle, is_paused, should_stop, join_handle,
                   click_count, start_time, current_config, mutex,
                   workerVars, histVars>>
    /\ UNCHANGED libVars

\* "Resume"                                                    app.rs:375-379
ResumeButton ==
    /\ clicker_status = "Paused"
    /\ resume("controls", "resume_update")

ResumeUpdate ==
    /\ ctl_pc = "resume_update"
    /\ mutex = "free"
    /\ clicker_status' = "Running"
    /\ ctl_pc' = "idle"
    /\ UNCHANGED <<thread_handle, is_paused, should_stop, join_handle,
                   click_count, start_time, current_config, mutex,
                   workerVars, histVars>>
    /\ UNCHANGED libVars

\* "Stop", in the Running and in the Paused arm      app.rs:367-372, 383-388
StopButton ==
    /\ clicker_status \in {"Running", "Paused"}
    /\ stop("controls", "stop_join", "stop_update")

StopJoin == join("stop_join", "stop_update")

\* a Stop handler that clears start_time only
StopUpdateKeepsStatus ==
    /\ ctl_pc = "stop_update"
    /\ mutex = "free"
    /\ start_time' = "None"
    /\ ctl_pc' = "idle"
    /\ UNCHANGED <<thread_handle, is_paused, should_stop, join_handle, clicker_status,
                   click_count, current_config, mutex, workerVars, histVars>>
    /\ UNCHANGED libVars

StopUpdate ==
    /\ ctl_pc = "stop_update"
    /\ mutex = "free"
    /\ clicker_status' = "Stopped"
    /\ start_time' = "None"
    /\ ctl_pc' = "idle"
    /\ UNCHANGED <<thread_handle, is_paused, should_stop, join_handle,
                   click_count, current_config, mutex, workerVars, histVars>>
    /\ UNCHANGED libVars

\* "Reset Statistics"                                   stats_view.rs:113-119
\* a reset that writes the statistics without taking the lock
ResetStatisticsUnlocked ==
    /\ ctl_pc = "idle"
    /\ click_count' = 0
    /\ start_time' = "Some"
    /\ completed' = 0
    /\ UNCHANGED <<delay_cut, ctlVars, clicker_status, current_config, mutex,
                   workerVars, paused_clicks, visits>>
    /\ UNCHANGED libVars

ResetStatistics ==
    /\ ctl_pc = "idle"
    /\ mutex = "free"
    /\ click_count' = 0
    /\ start_time' = "Some"
    /\ completed' = 0
    /\ UNCHANGED <<delay_cut, ctlVars, clicker_status, current_config, mutex,
                   workerVars, paused_clicks, visits>>
    /\ UNCHANGED libVars

(***************************************************************************)
(* Edits of the shared configuration.  Each locks the state, writes and    *)
(* unlocks within one view's ui(), before the status bar is drawn.         *)
(***************************************************************************)
SetConfig(c) ==
    /\ ctl_pc = "idle"
    /\ mutex = "free"
    /\ current_config' = c
    /\ UNCHANGED <<ctlVars, clicker_status, click_count, start_time, mutex,
                   workerVars, histVars>>
    /\ UNCHANGED libVars

\* the Min Delay slider                              settings_view.rs:90-100, 130-133
EditMinDelay ==
    \E v \in DelayValues :
       /\ v # current_config.min_delay
       /\ SetConfig([current_config EXCEPT
              !.min_delay = v,
              !.max_delay = IF v > @ THEN v ELSE @])

\* the Max Delay slider, whose range starts at min_delay
\*                                                  settings_view.rs:102-107, 130-133
EditMaxDelay ==
    \E v \in DelayValues :
       /\ v >= current_config.min_delay
       /\ v # current_config.max_delay
       /\ SetConfig([current_config EXCEPT !.max_delay = v])

\* "Reset to Defaults"                               settings_view.rs:150-155
ResetToDefaults == SetConfig(DefaultConfig)

\* "Create": a default configuration under the new name, unless saving it
\* fails                                              profile_view.rs:31-43
CreateProfile ==
    \E saved \in BOOLEAN :
       SetConfig(IF saved THEN DefaultConfig ELSE current_config)

\* a click on a profile: the file's configuration as deserialized, no field
\* checked                          profile_view.rs:60-68, config.rs:153-165
LoadProfile ==
    \E file \in ProfileFiles : SetConfig(file)


(***************************************************************************)
(* The application: the worker, the status bar controls, the timing and    *)
(* profile edits                                                           *)
(***************************************************************************)
Next ==
    \/ \E t \in Threads : Worker(t)
    \/ StatusBarLock
    \/ StatusBarDrop
    \/ NoButton
    \/ StartButton
    \/ StartUpdate
    \/ PauseButton
    \/ PauseUpdate
    \/ ResumeButton
    \/ ResumeUpdate
    \/ StopButton
    \/ StopJoin
    \/ StopUpdate
    \/ ResetStatistics
    \/ EditMinDelay
    \/ EditMaxDelay
    \/ ResetToDefaults
    \/ CreateProfile
    \/ LoadProfile

Spec == Init /\ [][Next]_vars

\* the worker thread is scheduled, and a join returns once its thread ended
FairSpec ==
    /\ Spec
    /\ \A t \in Threads : WF_vars(Worker(t))
    /\ WF_vars(StopJoin)


(***************************************************************************)
(* Properties of the application                                           *)
(***************************************************************************)

\* the controller is inside stop(), between the take() and the join's return
InStop == join_handle # NoThread

\* C1: once stop() has returned (the handle is taken and the join is over),
\* no worker thread is alive: the loop has ended, so it performs no further
\* click and no further increment of click_count, whatever it was doing when
\* stop() was called.
C1_StopJoinsWorker ==
    (thread_handle = NoThread /\ ~InStop) => \A t \in Threads : ~Alive(t)

\* stop() has returned to the Stop button's handler after a worker that had
\* clicked ended
C1_Witness ==
    /\ ctl_pc = "stop_update"
    /\ thread_handle = NoThread /\ ~InStop
    /\ click_count > 0
    /\ \E t \in Threads : wpc[t] = "exited"

\* a worker past its pause check that has not yet counted its click
InFlight(t) ==
    wpc[t] \in {"lock_config", "clone_config", "select", "move", "click",
                "lock_count", "incr_count", "write_count"}

\* C3 as stated: between the return of pause() and the next resume(),
\* click_count is not incremented at all.
C3_NoClickWhilePaused ==
    is_paused => paused_clicks = 0

\* C3: between the return of pause() and the next resume(), click_count is
\* incremented at most once, and only by the iteration that had passed its
\* pause check when pause() was called; once that iteration has counted its
\* click, no iteration is under way until resume().
C3_AtMostOneClickWhilePaused ==
    is_paused =>
        paused_clicks + Cardinality({t \in Threads : InFlight(t)}) <= 1

\* the pause flag is set and the iteration that was under way has counted
\* its click
C3_Witness ==
    /\ is_paused
    /\ paused_clicks = 1
    /\ clicker_status = "Paused"

\* what the data model asks of a configuration: min_delay <= max_delay
\* (equality included) and non-negative weights
DataModelOk(c) ==
    /\ c.min_delay <= c.max_delay
    /\ \A i \in 1..Len(c.areas) : c.areas[i] >= 0

\* C4: a worker whose configuration snapshot satisfies the data model ends
\* only by seeing the stop flag, never by a panic; so with such a
\* configuration a status of Running or Paused, outside stop(), has a live
\* worker behind it.
C4_WorkerEndsOnlyByStop ==
    /\ \A t \in Threads : DataModelOk(config[t]) => wpc[t] # "panicked"
    /\ (/\ clicker_status \in {"Running", "Paused"}
        /\ ctl_pc \notin {"stop_join", "stop_update"}
        /\ thread_handle # NoThread
        /\ DataModelOk(config[thread_handle]))
       => Alive(thread_handle)

\* C5: a controller blocked in stop() does not hold the state lock, and,
\* with the worker scheduled fairly, stop() returns.
C5_StopReturns ==
    /\ [](ctl_pc = "stop_join" => mutex # "controller")
    /\ (ctl_pc = "stop_join" ~> ctl_pc = "stop_update")

\* the controller is blocked in the join while the worker is about to take
\* the state lock
C5_Witness ==
    /\ ctl_pc = "stop_join"
    /\ wpc[join_handle] \in {"lock_config", "lock_count"}
    /\ mutex = "free"

\* C6: for every min_delay <= max_delay, equality included, the delay draw
\* completes, with a duration d, min_delay <= d, and d < max_delay when
\* min_delay < max_delay.
C6_DelayDrawCompletes ==
    \A t \in Threads :
       config[t].min_delay <= config[t].max_delay =>
          /\ panic[t] # "cannot sample empty range (mouse.rs:283)"
          /\ wpc[t] \in {"sleep_check", "sleep_tick"} =>
               /\ config[t].min_delay <= sleep_duration[t]
               /\ (config[t].min_delay < config[t].max_delay
                     => sleep_duration[t] < config[t].max_delay)

\* C9: min_delay <= max_delay in the shared configuration after every
\* timing mutation: the sliders, the reset, profile creation, profile load.
C9_MinDelayAtMostMaxDelay ==
    current_config.min_delay <= current_config.max_delay


(***************************************************************************)
(* The area view's edits of current_config.multi_area                      *)
(***************************************************************************)
\* the list without its entry at the 0-based index (Vec::remove)
RemoveAt(seq, index) ==
    [i \in 1..(Len(seq) - 1) |-> IF i <= index THEN seq[i] ELSE seq[i + 1]]

\* Config::add_click_area                                    config.rs:168-173
add_click_area(c, weight) ==
    [c EXCEPT !.areas = Append(@, weight), !.enabled = TRUE]

\* Config::remove_click_area                                 config.rs:176-186
remove_click_area(c, index) ==
    IF index < Len(c.areas)
      THEN [c EXCEPT !.areas = RemoveAt(@, index),
                     !.enabled = IF Len(c.areas) = 1 THEN FALSE ELSE @]
      ELSE c

\* Config::clear_click_areas                                 config.rs:189-192
clear_click_areas(c) ==
    [c EXCEPT !.areas = << >>, !.enabled = FALSE]

\* the "Enable Multiple Areas" checkbox                   area_view.rs:98-102
ToggleMultiArea ==
    SetConfig([current_config EXCEPT !.enabled = ~@])

\* the Selection Mode box, shown while the mode is enabled
\*                                                        area_view.rs:104-130
SetSelectionMode ==
    /\ current_config.enabled
    /\ \E mode \in {"Sequential", "Random", "Weighted"} :
         /\ mode # current_config.selection_mode
         /\ SetConfig([current_config EXCEPT !.selection_mode = mode])

\* "Add" in the new-area dialog: weight 1.0, or the slider's value in
\* Weighted mode                                          area_view.rs:202-215
AddArea ==
    /\ current_config.enabled
    /\ Len(current_config.areas) < MaxAreas
    /\ \E weight \in (IF current_config.selection_mode = "Weighted"
                        THEN SliderWeights ELSE {DefaultWeight}) :
         SetConfig(add_click_area(current_config, weight))

\* the end of a drag on the preview: a new area when the mode is enabled,
\* else a new primary click_area                          area_view.rs:327-351
DragArea ==
    /\ Len(current_config.areas) < MaxAreas
    /\ SetConfig(IF current_config.enabled
                   THEN add_click_area(current_config, DefaultWeight)
                   ELSE current_config)

\* "Remove" with the index last selected in the list      area_view.rs:159-167
RemoveArea ==
    /\ current_config.enabled
    /\ \E index \in 0..(MaxAreas - 1) :
         SetConfig(remove_click_area(current_config, index))

\* "Clear All"                                            area_view.rs:169-173
ClearAreas ==
    /\ current_config.enabled
    /\ SetConfig(clear_click_areas(current_config))

(***************************************************************************)
(* The application with the area view open: the worker, the status bar     *)
(* controls and the area edits                                             *)
(***************************************************************************)
AreaNext ==
    \/ \E t \in Threads : Worker(t)
    \/ StatusBarLock
    \/ StatusBarDrop
    \/ NoButton
    \/ StartButton
    \/ StartUpdate
    \/ PauseButton
    \/ PauseUpdate
    \/ ResumeButton
    \/ ResumeUpdate
    \/ StopButton
    \/ StopJoin
    \/ StopUpdate
    \/ ToggleMultiArea
    \/ SetSelectionMode
    \/ AddArea
    \/ DragArea
    \/ RemoveArea
    \/ ClearAreas

AreaSpec == Init /\ [][AreaNext]_vars

\* the areas a sequence names
Visited(seq) == {seq[i] : i \in 1..Len(seq)}

\* C7: Sequential selection over a list of n areas never fails, whatever the
\* cursor it starts from; the cursor after a selection is (cursor + 1) mod n,
\* and n consecutive selections visit each of the n areas exactly once.
C7_SequentialVisitsEachOnce ==
    \A t \in Threads :
       /\ panic[t] # "index out of bounds (mouse.rs:50)"
       /\ (/\ wpc[t] = "move" /\ area[t] > 0
           /\ config[t].selection_mode = "Sequential")
          => current_area_index[t] = area[t] % Len(config[t].areas)
       /\ (Len(visits[t]) > 0 /\ Len(visits[t]) = Len(config[t].areas))
          => Visited(visits[t]) = 1..Len(config[t].areas)

\* C8: whenever multi-area mode is enabled in the shared configuration, its
\* list of areas is non-empty, after every edit of the controller: add,
\* remove, clear, and the "Enable Multiple Areas" checkbox.
C8_EnabledImpliesAreas ==
    current_config.enabled => current_config.areas # << >>

(***************************************************************************)
(* ClickerThread driven by any caller of its methods                       *)
(***************************************************************************)
ApiStart  == start("idle")
ApiPause  == pause("idle", "idle")
ApiResume == resume("idle", "idle")
ApiStop   == stop("idle", "api_join", "api_stopped")
ApiJoin   == join("api_join", "api_stopped")

\* stop() has returned to its caller
ApiStopReturn ==
    /\ ctl_pc = "api_stopped"
    /\ ctl_pc' = "idle"
    /\ UNCHANGED <<thread_handle, is_paused, should_stop, join_handle,
                   stateVars, workerVars, histVars>>
    /\ UNCHANGED libVars

ApiNext ==
    \/ \E t \in Threads : Worker(t)
    \/ ApiStart
    \/ StartReturn
    \/ StartUpdate
    \/ ApiPause
    \/ ApiResume
    \/ ApiStop
    \/ ApiJoin
    \/ ApiStopReturn
    \/ ResetStatistics

ApiSpec == Init /\ [][ApiNext]_vars

\* C2: at most one worker loop is alive at any time, and a start() called
\* while the handle exists only reports that the thread is already running:
\* it spawns no thread and leaves the pause flag, the stop flag, the status,
\* start_time and click_count as they were.
C2_SecondStartIsNoOp ==
    /\ [](Cardinality({t \in Threads : Alive(t)}) <= 1)
    /\ [][(ctl_pc = "idle" /\ ctl_pc' \in {"start_lock", "already_running"}
              /\ thread_handle # NoThread)
           => /\ ctl_pc' = "already_running"
              /\ UNCHANGED <<thread_handle, is_paused, should_stop, wpc,
                             clicker_status, start_time, click_count>>]_vars

\* start() has just been called with a live worker's handle in place
C2_Witness ==
    /\ ctl_pc = "already_running"
    /\ thread_handle # NoThread
    /\ Alive(thread_handle)

(***************************************************************************)
(* Template search, image_recognition.rs:167-362.  Dimensions are pixels,  *)
(* scales are tenths, the threshold and the correlations are hundredths.   *)
(* Where only the dimensions are drawn, what a scan of the screen finds at *)
(* a scale is any correlation of Scores at the first or the last position  *)
(* of the scan; where the pixels are drawn, it is what the two passes      *)
(* compute on them.                                                        *)
(***************************************************************************)
\* a scaled template narrower or lower than this is skipped
MinTemplateSide == 10

\* let scales = [1.0, 0.9, 0.8, 1.1, 1.2]
Scales == <<10, 9, 8, 11, 12>>

\* sides of the screenshot and of the target image
ScreenSides   == {12, 20}
TemplateSides == {8, 10, 14, 20}
\* target.threshold
Thresholds == {0, 50, 95}
\* correlations a scan can come up with
Scores == {0, 40, 95}
\* scores[i] of a scale that was not evaluated
NotEvaluated == -1

\* images of a search in which only the dimensions are modelled
NoPixels == [kind |-> "none"]

\* (side as f32 * scale) as u32: the product is truncated.  For sides below
\* 5000 pixels the f32 product truncates to the same integer as the exact one.
Scaled(side, scale) == (side * scale) \div 10

\* the scaled template does not go into the scan        image_recognition.rs:247
SkipScale(scale) ==
    \/ Scaled(template_dim[1], scale) > screen_dim[1]
    \/ Scaled(template_dim[2], scale) > screen_dim[2]
    \/ Scaled(template_dim[1], scale) < MinTemplateSide
    \/ Scaled(template_dim[2], scale) < MinTemplateSide

\* the first and the last offset of a scan over 0..=last with the given step
ScanOffsets(last, step) == {0, last - (last % step)}

BestMatch(c, x, y, scale) == [correlation |-> c, x |-> x, y |-> y, scale |-> scale]

\* DynamicImage::resize(nwidth, nheight, ..) of the image crate keeps the
\* aspect ratio: the image is scaled by the smaller of nwidth / width and
\* nheight / height, and each side is rounded to the nearest pixel.  Where
\* the exact side ends in .5 the f64 product may fall on either side, so both
\* roundings are results.                            image_recognition.rs:253
ResizeDimensions(dim, nwidth, nheight) ==
    LET Max(a, b) == IF a > b THEN a ELSE b
        Rounded(num, den) ==
            {Max((2 * num + den) \div (2 * den), 1)} \cup
            (IF (2 * num) % (2 * den) = den THEN {Max(num \div den, 1)} ELSE {})
    IN IF nwidth * dim[2] <= nheight * dim[1]
         THEN {<<nwidth, h>> : h \in Rounded(dim[2] * nwidth, dim[1])}
         ELSE {<<w, nheight>> : w \in Rounded(dim[1] * nheight, dim[2])}

\* template_to_use: resized unless (scale - 1.0).abs() <= 0.01
\*                                                image_recognition.rs:252-256
TemplateToUse(scale) ==
    IF scale # 10
      THEN ResizeDimensions(template_dim, Scaled(template_dim[1], scale),
                                          Scaled(template_dim[2], scale))
      ELSE {template_dim}

\* the first pass reads template_to_use.get_pixel(tx, ty) for every 2nd tx
\* below scaled_width and every 2nd ty below scaled_height, the second pass
\* for every tx and ty below them; get_pixel panics outside the image
\*                                           image_recognition.rs:275-277, 323-325
FirstPassReadsOutside(scale, used) ==
    LET LastRead(side) == (side - 1) - ((side - 1) % 2)
    IN \/ LastRead(Scaled(template_dim[1], scale)) >= used[1]
       \/ LastRead(Scaled(template_dim[2], scale)) >= used[2]

SecondPassReadsOutside(scale, used) ==
    \/ Scaled(template_dim[1], scale) > used[1]
    \/ Scaled(template_dim[2], scale) > used[2]

\* what the first pass over one scale leaves in best_match: it visits every
\* 2nd offset                                      image_recognition.rs:259-302
FirstPass(scale) ==
    LET last_x == screen_dim[1] - Scaled(template_dim[1], scale)
        last_y == screen_dim[2] - Scaled(template_dim[2], scale)
        Last(offsets) == CHOOSE o \in offsets : \A q \in offsets : q <= o
    IN {BestMatch(0, 0, 0, scale)} \cup
       {BestMatch(c, pos[1], pos[2], scale) :
           c \in Scores \ {0},
           pos \in {<<0, 0>>, <<Last(ScanOffsets(last_x, 2)),
                                Last(ScanOffsets(last_y, 2))>>}}

\* found_match: the best correlation of the first pass, above 0.0, reaches
\* threshold * 0.8                                 image_recognition.rs:295-305
FoundMatch(b) == b.correlation > 0 /\ b.correlation * 10 >= threshold * 8

\* what the two passes over one scale leave in best_match when no read
\* panics: after a first pass with found_match the second pass looks at
\* every offset within 4 pixels of its best match and keeps what is strictly
\* better                                          image_recognition.rs:259-348
ScanResults(scale) ==
    LET last_x == screen_dim[1] - Scaled(template_dim[1], scale)
        last_y == screen_dim[2] - Scaled(template_dim[2], scale)
        Clamp(v, lo, hi) == IF v < lo THEN lo ELSE IF v > hi THEN hi ELSE v
        second_pass(b) ==
            {b} \cup
            {BestMatch(c, pos[1], pos[2], scale) :
                c \in {d \in Scores : d > b.correlation},
                pos \in {<<Clamp(b.x - 4, 0, last_x), Clamp(b.y - 4, 0, last_y)>>,
                         <<Clamp(b.x + 4, 0, last_x), Clamp(b.y + 4, 0, last_y)>>}}
    IN UNION {IF FirstPassReadsOutside(scale, used) THEN {}
              ELSE UNION {IF ~FoundMatch(b) THEN {b}
                          ELSE IF SecondPassReadsOutside(scale, used) THEN {}
                          ELSE second_pass(b) : b \in FirstPass(scale)} :
                 used \in TemplateToUse(scale)}

\* the scan of the scale reads a pixel outside template_to_use
ScanPanics(scale) ==
    \E used \in TemplateToUse(scale) :
        \/ FirstPassReadsOutside(scale, used)
        \/ /\ SecondPassReadsOutside(scale, used)
           /\ \E b \in FirstPass(scale) : FoundMatch(b)

\* ---- the scan of one scale on pixels           image_recognition.rs:258-348
\* The images of a pixel-level search: a template of one of four kinds, and
\* a screen of one grey level into which the template is copied at `paste`.
\* Grey levels are 0, 1 and 2, which keeps every sum exact.

\* template_to_use.get_pixel(tx, ty)[0]
TemplatePixel(tx, ty) ==
    CASE images.kind = "flat"      -> 1
      [] images.kind = "black"     -> 0
      [] images.kind = "left_half" -> IF tx < 5 THEN 1 ELSE 0
      [] images.kind = "stripes"   -> IF tx % 2 = 0 THEN 1 ELSE 0

\* screen_gray.get_pixel(x, y)[0]
ScreenPixel(x, y) ==
    IF /\ x >= images.paste[1] /\ x < images.paste[1] + template_dim[1]
       /\ y >= images.paste[2] /\ y < images.paste[2] + template_dim[2]
      THEN TemplatePixel(x - images.paste[1], y - images.paste[2])
      ELSE images.background

\* the sum of the first n entries of a sequence
RECURSIVE SumTo(_, _)
SumTo(f, n) == IF n = 0 THEN 0 ELSE f[n] + SumTo(f, n - 1)

\* the three sums of one position, over every step-th pixel of the template;
\* the correlation is cross / sqrt(template_sq * screen_sq), or 0.0 when the
\* denominator is not positive
Correlation(x, y, step) ==
    LET columns == (template_dim[1] + step - 1) \div step
        rows    == (template_dim[2] + step - 1) \div step
        t(i, j) == TemplatePixel((i - 1) * step, (j - 1) * step)
        s(i, j) == ScreenPixel(x + (i - 1) * step, y + (j - 1) * step)
        cross_correlation ==
            SumTo([j \in 1 .. rows |->
                      SumTo([i \in 1 .. columns |-> t(i, j) * s(i, j)], columns)], rows)
        template_sum_squared ==
            SumTo([j \in 1 .. rows |->
                      SumTo([i \in 1 .. columns |-> t(i, j) * t(i, j)], columns)], rows)
        screen_sum_squared ==
            SumTo([j \in 1 .. rows |->
                      SumTo([i \in 1 .. columns |-> s(i, j) * s(i, j)], columns)], rows)
    IN [cross |-> cross_correlation,
        den   |-> template_sum_squared * screen_sum_squared]

\* the correlation 0.0 a best_match starts from
ZeroCorrelation == [cross |-> 0, den |-> 0]

\* correlation a > correlation b, on the squares
Above(a, b) ==
    IF a.den = 0 THEN FALSE
    ELSE IF b.den = 0 THEN a.cross > 0
    ELSE a.cross * a.cross * b.den > b.cross * b.cross * a.den

\* correlation c >= num / den
AtLeast(c, num, den) ==
    \/ num = 0
    \/ /\ c.den > 0
       /\ c.cross * c.cross * den * den >= num * num * c.den

\* the correlation in hundredths, rounded down
Hundredths(c) ==
    IF c.den = 0 THEN 0
    ELSE CHOOSE k \in 0 .. 100 :
            /\ k * k * c.den <= 10000 * c.cross * c.cross
            /\ (k + 1) * (k + 1) * c.den > 10000 * c.cross * c.cross

\* the positions of a pass in the order the two loops visit them
Grid(start_x, end_x, start_y, end_y, step) ==
    LET nx == (end_x - start_x) \div step + 1
        ny == (end_y - start_y) \div step + 1
    IN [k \in 1 .. nx * ny |->
            <<start_x + ((k - 1) % nx) * step, start_y + ((k - 1) \div nx) * step>>]

\* one pass: the best match is replaced by each strictly better position
RECURSIVE ScanPass(_, _, _, _)
ScanPass(positions, k, step, best) ==
    IF k > Len(positions) THEN best
    ELSE LET correlation == Correlation(positions[k][1], positions[k][2], step)
         IN ScanPass(positions, k + 1, step,
                IF Above(correlation, best.correlation)
                  THEN [correlation |-> correlation,
                        x |-> positions[k][1], y |-> positions[k][2]]
                  ELSE best)

\* both passes of the scale 1.0, where the template is used unresized
ScanPixels(scale) ==
    LET last_x == screen_dim[1] - Scaled(template_dim[1], scale)
        last_y == screen_dim[2] - Scaled(template_dim[2], scale)
        initial_step == 2
        search_radius == initial_step * 2
        Max(a, b) == IF a > b THEN a ELSE b
        Min(a, b) == IF a < b THEN a ELSE b
        first == ScanPass(Grid(0, last_x, 0, last_y, initial_step), 1, initial_step,
                          [correlation |-> ZeroCorrelation, x |-> 0, y |-> 0])
        found_match == /\ Above(first.correlation, ZeroCorrelation)
                       /\ AtLeast(first.correlation, threshold * 4, 500)
        second == ScanPass(Grid(Max(first.x - search_radius, 0),
                                Min(first.x + search_radius, last_x),
                                Max(first.y - search_radius, 0),
                                Min(first.y + search_radius, last_y), 1),
                           1, 1, first)
        best_match == IF found_match THEN second ELSE first
    IN BestMatch(Hundredths(best_match.correlation), best_match.x, best_match.y, scale)

\* what the scan of a scale can end with
ScanOutcomes(scale) ==
    IF images = NoPixels THEN ScanResults(scale) ELSE {ScanPixels(scale)}

\* find_on_screen up to the call of find_template: the target is looked up,
\* the screen captured, the target image decoded; each can fail
\*                                                  image_recognition.rs:167-181
FindOnScreenPrepare ==
    /\ find_pc = "find_on_screen"
    /\ \E outcome \in {"ok", "Target not found", "capture failed", "decode failed"} :
         IF outcome = "ok"
           THEN /\ find_pc' = "find_template"
                /\ UNCHANGED on_screen_result
           ELSE /\ find_pc' = "done"
                /\ on_screen_result' = [tag |-> "Err", value |-> outcome]
    /\ UNCHANGED <<appVars, fnVars, images, screen_dim, template_dim, threshold,
                   scale_index, scores, global_best_match, find_result, scored>>

\* find_template: the size check ahead of the scales   image_recognition.rs:230-240
FindTemplateSizeCheck ==
    /\ find_pc = "find_template"
    /\ IF template_dim[1] > screen_dim[1] \/ template_dim[2] > screen_dim[2]
         THEN /\ find_result' = "None"
              /\ find_pc' = "returned"
              /\ UNCHANGED <<scale_index, global_best_match>>
         ELSE /\ global_best_match' = BestMatch(0, 0, 0, 10)
              /\ scale_index' = 1
              /\ find_pc' = "scales"
              /\ UNCHANGED find_result
    /\ UNCHANGED <<appVars, fnVars, images, screen_dim, template_dim, threshold, scores,
                   on_screen_result, scored>>

\* one scale that is skipped                          image_recognition.rs:242-249
FindTemplateSkipScale ==
    /\ find_pc = "scales"
    /\ scale_index <= Len(Scales)
    /\ SkipScale(Scales[scale_index])
    /\ scale_index' = scale_index + 1
    /\ UNCHANGED <<appVars, fnVars, images, find_pc, screen_dim, template_dim, threshold,
                   scores, global_best_match, find_result, on_screen_result,
                   scored>>

\* one scale that is scanned                          image_recognition.rs:242-353
FindTemplateScanScale ==
    /\ find_pc = "scales"
    /\ scale_index <= Len(Scales)
    /\ ~SkipScale(Scales[scale_index])
    /\ \E best_match \in ScanOutcomes(Scales[scale_index]) :
         /\ scores' = [scores EXCEPT ![scale_index] = best_match.correlation]
         /\ scored' = scored \cup {best_match}
         /\ global_best_match' =
               IF best_match.correlation > global_best_match.correlation
                 THEN best_match ELSE global_best_match
    /\ scale_index' = scale_index + 1
    /\ UNCHANGED <<appVars, fnVars, images, find_pc, screen_dim, template_dim, threshold,
                   find_result, on_screen_result>>

\* one scale whose scan panics in get_pixel      image_recognition.rs:277, 325
FindTemplateScanPanics ==
    /\ find_pc = "scales"
    /\ scale_index <= Len(Scales)
    /\ ~SkipScale(Scales[scale_index])
    /\ ScanPanics(Scales[scale_index])
    /\ find_pc' = "panicked"
    /\ UNCHANGED <<appVars, fnVars, images, screen_dim, template_dim, threshold,
                   scale_index, scores, global_best_match, find_result,
                   on_screen_result, scored>>

\* find_template: after the last scale                image_recognition.rs:356-361
FindTemplateReturn ==
    /\ find_pc = "scales"
    /\ scale_index > Len(Scales)
    /\ find_result' = IF global_best_match.correlation >= threshold
                        THEN <<global_best_match.x, global_best_match.y>>
                        ELSE "None"
    /\ find_pc' = "returned"
    /\ UNCHANGED <<appVars, fnVars, images, screen_dim, template_dim, threshold,
                   scale_index, scores, global_best_match, on_screen_result,
                   scored>>

\* find_on_screen: the match on what find_template returned; the target has
\* no click offset, so the point is the centre of the match
\*                                                  image_recognition.rs:184-198
FindOnScreenReturn ==
    /\ find_pc = "returned"
    /\ on_screen_result' =
          IF find_result = "None"
            THEN [tag |-> "Ok", value |-> "None"]
            ELSE [tag |-> "Ok",
                  value |-> <<find_result[1] + template_dim[1] \div 2,
                              find_result[2] + template_dim[2] \div 2>>]
    /\ find_pc' = "done"
    /\ UNCHANGED <<appVars, fnVars, images, screen_dim, template_dim, threshold,
                   scale_index, scores, global_best_match, find_result, scored>>

\* a call of find_on_screen for some target over some screen
MatchInit ==
    /\ AppInit
    /\ FnIdle
    /\ find_pc = "find_on_screen"
    /\ screen_dim \in ScreenSides \X ScreenSides
    /\ template_dim \in TemplateSides \X TemplateSides
    /\ threshold \in Thresholds
    /\ scale_index = 0
    /\ scores = [i \in 1..Len(Scales) |-> NotEvaluated]
    /\ global_best_match = BestMatch(0, 0, 0, 10)
    /\ find_result = "pending"
    /\ on_screen_result = "pending"
    /\ scored = {}
    /\ images = NoPixels

MatchNext ==
    \/ FindOnScreenPrepare
    \/ FindTemplateSizeCheck
    \/ FindTemplateSkipScale
    \/ FindTemplateScanScale
    \/ FindTemplateScanPanics
    \/ FindTemplateReturn
    \/ FindOnScreenReturn

MatchSpec == MatchInit /\ [][MatchNext]_vars

\* A search on pixels: the screen holds an exact copy of the template at
\* `paste`; only the scale 1.0 fits the screen.
PixelInit ==
    LET TemplateKinds == {"flat", "black", "left_half", "stripes"}
        GreyLevels    == {0, 1, 2}
        PixelTemplateDim == <<10, 10>>
        PixelScreenDim   == <<14, 10>>
    IN /\ AppInit
       /\ FnIdle
       /\ find_pc = "find_on_screen"
       /\ screen_dim = PixelScreenDim
       /\ template_dim = PixelTemplateDim
       /\ threshold \in {80, 95}
       /\ images \in [kind : TemplateKinds, background : GreyLevels,
                      paste : (0 .. PixelScreenDim[1] - PixelTemplateDim[1]) \X
                              (0 .. PixelScreenDim[2] - PixelTemplateDim[2])]
       /\ scale_index = 0
       /\ scores = [i \in 1 .. Len(Scales) |-> NotEvaluated]
       /\ global_best_match = BestMatch(0, 0, 0, 10)
       /\ find_result = "pending"
       /\ on_screen_result = "pending"
       /\ scored = {}

\* the steps of that search: the template is never resampled, since the
\* scales below 1.0 are skipped, so no scan reads outside it
PixelNext ==
    \/ FindOnScreenPrepare
    \/ FindTemplateSizeCheck
    \/ FindTemplateSkipScale
    \/ FindTemplateScanScale
    \/ FindTemplateReturn
    \/ FindOnScreenReturn

PixelSpec == PixelInit /\ [][PixelNext]_vars

\* the template exceeds the screen at every scale the search attempts
LargerAtEveryScale ==
    \A i \in 1..Len(Scales) :
       \/ Scaled(template_dim[1], Scales[i]) > screen_dim[1]
       \/ Scaled(template_dim[2], Scales[i]) > screen_dim[2]

\* C10: a search that got as far as the matching ends in one of two ways:
\* with an input error when the template is larger than the screen at every
\* scale attempted, and with None, no error, when the template fits but no
\* scale reached the threshold.
C10_TwoOutcomes ==
    (find_pc = "done" /\ find_result # "pending") =>
       /\ LargerAtEveryScale => on_screen_result.tag = "Err"
       /\ (/\ template_dim[1] <= screen_dim[1]
           /\ template_dim[2] <= screen_dim[2]
           /\ \A i \in 1..Len(Scales) : scores[i] < threshold)
          => on_screen_result = [tag |-> "Ok", value |-> "None"]

\* m is a best_match of a scanned scale that reaches the threshold and that no
\* other scanned scale exceeds
BestScored(m) ==
    /\ m \in scored
    /\ m.correlation >= threshold
    /\ \A n \in scored : n.correlation <= m.correlation

\* C11: find_template returns Some(p) only for a position p that was scored
\* at a scale it scanned, with a score that reaches the threshold and is the
\* maximum over everything scanned; in every other case, every scale skipped
\* included, it returns None, whatever the threshold in [0, 1].
C11_SomeOnlyIfScored ==
    find_result # "pending" =>
       IF \E m \in scored : BestScored(m)
         THEN \E m \in scored : BestScored(m) /\ find_result = <<m.x, m.y>>
         ELSE find_result = "None"


\* C12: when the screen holds an exact copy of the template at a position and
\* the threshold is 0.95, find_template returns a point within 2 pixels of that
\* position on each axis, whatever the template and the rest of the screen are.
C12_ExactCopyIsFound ==
    (images # NoPixels /\ threshold = 95 /\ find_result # "pending") =>
        /\ find_result # "None"
        /\ find_result[1] - images.paste[1] \in -2 .. 2
        /\ find_result[2] - images.paste[2] \in -2 .. 2


(***************************************************************************)
(* The functions of mouse.rs that a click calls, each on its own: a call   *)
(* is drawn with its arguments, and the function returns or panics.        *)
(***************************************************************************)
I32Max  == 2147483647
MinHold == 40
MaxHold == 150

Returned(v) == [state |-> "returned", value |-> v]
Panicked(m) == [state |-> "panicked", value |-> m]

\* a + b leaves i32: a debug build panics on the addition, a release build
\* wraps the sum around
Overflows(a, b) ==
    IF b > 0 THEN a > I32Max - b ELSE a < (-I32Max - 1) - b

\* the sum a release build computes when a + b overflows
WrappedSum(a, b) ==
    IF b > 0 THEN (a - I32Max - 1) + (b - I32Max - 1)
             ELSE (a + I32Max + 1) + (b + I32Max + 1)

\* rng.gen_range(start..start + extent) of one axis: the draws, and the
\* payloads of the panics                                   mouse.rs:102-103
AxisDraws(origin, extent) ==
    IF Overflows(origin, extent)
      THEN GenRange(origin, WrappedSum(origin, extent))
      ELSE GenRange(origin, origin + extent)

AxisPanics(origin, extent) ==
    (IF Overflows(origin, extent) THEN {"attempt to add with overflow"} ELSE {})
    \cup (IF AxisDraws(origin, extent) = {} THEN {"cannot sample empty range"} ELSE {})

\* generate_random_coordinates                                mouse.rs:95-105
generate_random_coordinates(start_x, start_y, width, height) ==
    {Panicked(m) : m \in AxisPanics(start_x, width)}
    \cup
    (IF AxisDraws(start_x, width) = {} THEN {}
     ELSE {Panicked(m) : m \in AxisPanics(start_y, height)}
          \cup {Returned(<<x, y>>) : x \in AxisDraws(start_x, width),
                                     y \in AxisDraws(start_y, height)})

\* the default weights of the click types, in hundredths   config.rs:69-82
DefaultClickTypeWeights ==
    << <<"Single", 70>>, <<"Double", 10>>, <<"Right", 10>>, <<"Middle", 10>> >>

\* the weights of a list of (item, weight) pairs
WeightsOf(pairs) == [i \in 1 .. Len(pairs) |-> pairs[i][2]]

\* the loop of mouse.rs:218-223: the first click type whose weight is >= what
\* is left of the draw, and Single when no entry returns (line 226)
RECURSIVE ClickTypeWalk(_, _, _)
ClickTypeWalk(pairs, i, random_value) ==
    IF i > Len(pairs) THEN "Single"
    ELSE IF random_value <= pairs[i][2] THEN pairs[i][1]
    ELSE ClickTypeWalk(pairs, i + 1, random_value - pairs[i][2])

\* get_click_type                                            mouse.rs:202-227
get_click_type(options) ==
    IF ~options.randomize_click_type
      THEN {Returned(options.click_type)}
    ELSE LET total_weight == SumWeights(WeightsOf(options.click_type_weights))
             draws == GenRange(0, total_weight)
         IN IF draws = {}
              THEN {Panicked("cannot sample empty range (mouse.rs:215)")}
              ELSE {Returned(ClickTypeWalk(options.click_type_weights, 1, r)) :
                        r \in draws}

\* f64::clamp
Unclamped(v, lo, hi) == v

clamp(v, lo, hi) == IF v < lo THEN lo ELSE IF v > hi THEN hi ELSE v

\* `as u64` of a duration given in tenths of a millisecond: the fraction is
\* dropped and a negative value becomes 0
AsU64(tenths) == IF tenths < 0 THEN 0 ELSE tenths \div 10

\* what Normal::sample returns, in tenths of a millisecond, for a standard
\* normal draw z given in tenths
SampleDraws == {-30, -7, 0, 7, 30}
Sample(mean, std_dev, z) == mean * 10 + std_dev * z

\* human_like_click: the hold duration and the click type of the click, or
\* the panic.  Normal::new rejects a negative std_dev in some releases of
\* rand_distr and accepts it in others.                      mouse.rs:229-273
human_like_click(timing, options) ==
    (IF timing.click_duration_std_dev < 0
       THEN {Panicked("called Result::unwrap() on an Err value (mouse.rs:233)")}
       ELSE {})
    \cup
    UNION {LET click_duration == Sample(timing.click_duration_mean,
                                        timing.click_duration_std_dev, z)
               clamped_duration ==
                   AsU64(clamp(click_duration, MinHold * 10, MaxHold * 10))
           IN {IF click_type.state = "panicked" THEN click_type
               ELSE Returned([click_type |-> click_type.value,
                              hold |-> clamped_duration]) :
                   click_type \in get_click_type(options)} : z \in SampleDraws}

\* steps = (distance / 10.0).ceil(), distance the length of (dx, dy)
\*                                                          mouse.rs:152-153
Steps(dx, dy) ==
    CHOOSE n \in 0 .. dx * dx + dy * dy :
        /\ 100 * n * n >= dx * dx + dy * dy
        /\ n = 0 \/ 100 * (n - 1) * (n - 1) < dx * dx + dy * dy

\* where simulate_human_movement leaves the pointer: the target is clamped
\* to the screen; nothing moves when dx and dy are both below 2; otherwise
\* step i of `steps` sets the pointer on the line from the start to the
\* target, unless its safe_move_mouse fails (the steps of `failed`), which
\* leaves the pointer where it was                           mouse.rs:129-178
RECURSIVE MoveSteps(_, _, _, _, _, _)
MoveSteps(pointer, start_pos, d, steps, failed, i) ==
    IF i > steps THEN pointer
    ELSE LET max_x == fn_call.screen[1]
             max_y == fn_call.screen[2]
             x == clamp((start_pos[1] * steps + d[1] * i) \div steps, 0, max_x - 1)
             y == clamp((start_pos[2] * steps + d[2] * i) \div steps, 0, max_y - 1)
         IN MoveSteps(IF i \in failed THEN pointer ELSE <<x, y>>,
                      start_pos, d, steps, failed, i + 1)

ClampedTarget(target, screen) ==
    <<clamp(target[1], 0, screen[1] - 1), clamp(target[2], 0, screen[2] - 1)>>

Abs(v) == IF v < 0 THEN -v ELSE v

pointer_after_movement(start_pos, target, screen, fails) ==
    LET t  == ClampedTarget(target, screen)
        dx == t[1] - start_pos[1]
        dy == t[2] - start_pos[2]
        steps == Steps(dx, dy)
        failed == CASE fails = "none" -> {}
                    [] fails = "last" -> {steps}
                    [] fails = "all"  -> 1 .. steps
    IN IF Abs(dx) < 2 /\ Abs(dy) < 2
         THEN start_pos
         ELSE MoveSteps(start_pos, start_pos, <<dx, dy>>, steps, failed, 1)

\* the calls drawn: origins and extents around 0 and at the end of i32, means
\* and deviations inside and outside the sliders' ranges, click options with
\* an empty list, the default weights, all weights 0 and one weight not 0,
\* and weighted area lists with weights 0
FnCalls ==
    LET Origins == {-5, 0, I32Max - 3}
        Extents == {-1, 0, 1, 4}
        Means   == {-50, 10, 80, 200, 1000}
        StdDevs == {-20, 0, 1, 50}
        ClickOptions ==
            [click_type : {"Single", "Right"}, randomize_click_type : BOOLEAN,
             click_type_weights : {<< >>, DefaultClickTypeWeights,
                 << <<"Single", 0>>, <<"Double", 0>>, <<"Right", 0>>, <<"Middle", 0>> >>,
                 << <<"Single", 0>>, <<"Double", 100>>, <<"Right", 0>>, <<"Middle", 0>> >>}]
        WeightedConfigs ==
            {[DefaultConfig EXCEPT !.enabled = TRUE, !.selection_mode = "Weighted",
                                   !.areas = ws] :
                ws \in {<<0>>, <<0, 0>>, <<0, DefaultWeight>>,
                        <<DefaultWeight, DefaultWeight>>}}
    IN [fn : {"generate_random_coordinates"}, start_x : Origins, start_y : Origins,
        width : Extents, height : Extents]
       \cup [fn : {"human_like_click"},
             timing : [click_duration_mean : Means, click_duration_std_dev : StdDevs],
             options : ClickOptions]
       \cup [fn : {"get_click_type"}, options : ClickOptions]
       \cup [fn : {"get_next_click_area"}, config : WeightedConfigs,
             current_index : {0}]
       \cup [fn : {"simulate_human_movement"},
             start_pos : {<<0, 0>>, <<5, 5>>, <<20, 7>>},
             target : {<<6, 5>>, <<6, 6>>, <<25, 5>>, <<-3, 40>>, <<31, 23>>},
             screen : {<<32, 24>>},
             fails : {"none", "last", "all"}]

Calls(fn) == fn_call.fn = fn /\ fn_result.state = "pending"

GenerateRandomCoordinates ==
    /\ Calls("generate_random_coordinates")
    /\ fn_result' \in generate_random_coordinates(fn_call.start_x, fn_call.start_y,
                                                  fn_call.width, fn_call.height)
    /\ UNCHANGED <<appVars, matchVars, fn_call>>

HumanLikeClick ==
    /\ Calls("human_like_click")
    /\ fn_result' \in human_like_click(fn_call.timing, fn_call.options)
    /\ UNCHANGED <<appVars, matchVars, fn_call>>

GetClickType ==
    /\ Calls("get_click_type")
    /\ fn_result' \in get_click_type(fn_call.options)
    /\ UNCHANGED <<appVars, matchVars, fn_call>>

GetNextClickArea ==
    /\ Calls("get_next_click_area")
    /\ \E o \in get_next_click_area(fn_call.config, fn_call.current_index) :
         fn_result' = IF o.panic = "none"
                        THEN Returned([area |-> o.area, index |-> o.index])
                        ELSE Panicked(o.panic)
    /\ UNCHANGED <<appVars, matchVars, fn_call>>

\* simulate_human_movement, which returns Ok(()) whatever its steps did
SimulateHumanMovement ==
    /\ Calls("simulate_human_movement")
    /\ fn_result' = Returned([result |-> simulate_human_movement(fn_call.fails # "none"),
                              pointer |-> pointer_after_movement(fn_call.start_pos,
                                  fn_call.target, fn_call.screen, fn_call.fails)])
    /\ UNCHANGED <<appVars, matchVars, fn_call>>

FnInit ==
    /\ AppInit
    /\ MatchIdle
    /\ fn_call \in FnCalls
    /\ fn_result = [state |-> "pending"]

FnNext ==
    \/ GenerateRandomCoordinates
    \/ HumanLikeClick
    \/ GetClickType
    \/ GetNextClickArea
    \/ SimulateHumanMovement

FnSpec == FnInit /\ [][FnNext]_vars

\* C13: whatever the mean, the standard deviation and the value sampled, the
\* hold duration a click uses lies in [40, 150] ms.
C13_HoldWithinBounds ==
    (fn_call.fn = "human_like_click" /\ fn_result.state = "returned") =>
        fn_result.value.hold \in MinHold .. MaxHold

\* a click whose samples all lie below 40 ms holds the button for 40 ms
C13_Witness ==
    /\ fn_call.fn = "human_like_click"
    /\ fn_call.timing = [click_duration_mean |-> 10, click_duration_std_dev |-> 1]
    /\ fn_result.state = "returned"
    /\ fn_result.value.hold = MinHold

\* C14: for every origin and every width > 0 and height > 0, the generated
\* point (x, y) has origin.x <= x < origin.x + width and
\* origin.y <= y < origin.y + height.
C14_PointInsideArea ==
    (/\ fn_call.fn = "generate_random_coordinates"
     /\ fn_call.width > 0 /\ fn_call.height > 0
     /\ fn_result.state = "returned") =>
        /\ fn_result.value[1] >= fn_call.start_x
        /\ fn_result.value[1] - fn_call.start_x < fn_call.width
        /\ fn_result.value[2] >= fn_call.start_y
        /\ fn_result.value[2] - fn_call.start_y < fn_call.height

\* a point on the last column and the last row of an area 4 wide and 4 high
C14_Witness ==
    /\ fn_call.fn = "generate_random_coordinates"
    /\ fn_call.width = 4 /\ fn_call.height = 4
    /\ fn_result.state = "returned"
    /\ fn_result.value[1] - fn_call.start_x = 3
    /\ fn_result.value[2] - fn_call.start_y = 3


\* C17: a weighted choice whose weights sum to zero, or whose list is empty,
\* does not fail but falls back: the weighted selection over a non-empty list
\* of areas returns the area at index 0, and the randomized choice of the
\* click type returns Single.
C17_ZeroWeightsFallBack ==
    /\ (/\ fn_call.fn = "get_click_type"
        /\ fn_call.options.randomize_click_type
        /\ SumWeights(WeightsOf(fn_call.options.click_type_weights)) = 0
        /\ fn_result.state # "pending") =>
            fn_result = Returned("Single")
    /\ (/\ fn_call.fn = "get_next_click_area"
        /\ SumWeights(fn_call.config.areas) = 0
        /\ fn_result.state # "pending") =>
            /\ fn_result.state = "returned"
            /\ fn_result.value.area = 1


\* C15: stop() is idempotent.  Called when no worker exists it returns at
\* once and changes no flag, no state and no worker; and when a stop() has
\* returned no worker exists, so a second stop() changes nothing more.
C15_StopIsIdempotent ==
    /\ [](ctl_pc = "api_stopped" => thread_handle = NoThread)
    /\ [][(/\ ctl_pc = "idle"
           /\ ctl_pc' \in {"api_join", "api_stopped"}
           /\ thread_handle = NoThread)
          => /\ ctl_pc' = "api_stopped"
             /\ UNCHANGED <<thread_handle, join_handle, is_paused, should_stop,
                            stateVars, workerVars>>]_vars

\* a stop() that found no worker has returned: the stop flag is still clear
C15_Witness ==
    /\ ctl_pc = "api_stopped"
    /\ ~should_stop
    /\ thread_handle = NoThread


\* C16: in Sequential mode, with the controller adding and removing areas
\* between the worker's iterations, the worker's cursor is a valid index of
\* the list it has snapshotted each time it is used, so an edit can only make
\* the round robin skip or repeat an area.
C16_CursorValidAtUse ==
    \A t \in Threads :
        (/\ wpc[t] = "select"
         /\ config[t].enabled
         /\ config[t].areas # << >>
         /\ config[t].selection_mode = "Sequential")
        => current_area_index[t] < Len(config[t].areas)


\* C18: a pause takes effect at the worker's next check of the pause flag and
\* does not interrupt the iteration under way: pause() leaves the worker
\* where it is, no iteration starts while the pause flag is set, and at most
\* one click, the one under way when pause() was called, is counted between
\* pause() and resume().
C18_PauseAtNextCheck ==
    /\ [](is_paused => paused_clicks <= 1)
    /\ [][is_paused => \A t \in Threads : InFlight(t)' => InFlight(t)]_vars
    /\ [][(~is_paused /\ is_paused') => UNCHANGED <<wpc, click_count>>]_vars

\* the worker has counted the click that was under way when pause() was
\* called and now waits in the pause branch
C18_Witness ==
    /\ is_paused
    /\ paused_clicks = 1
    /\ \E t \in Threads : wpc[t] = "pause_wait"


\* C19: a successful start() clears the flags, records the start time and
\* sets the status to Running before the worker performs any step of its
\* loop: whenever the worker snapshots the configuration or records a click,
\* the status is Running or Paused and start_time is present.
C19_RunningBeforeWorkerSteps ==
    \A t \in Threads :
        wpc[t] \in {"clone_config", "incr_count"} =>
            /\ clicker_status \in {"Running", "Paused"}
            /\ start_time = "Some"


\* C20: if a pointer move fails during an iteration, the iteration is
\* abandoned: no button is pressed and click_count is not incremented for it,
\* and the worker restarts from the top of its loop.
C20_FailedMoveAbandonsIteration ==
    \A t \in Threads :
        move_failed[t] => wpc[t] \notin {"click", "lock_count", "incr_count"}


\* C21: the shared automation state is reset on stop: when the controller's
\* Stop action completes, the status is Stopped, start_time is absent and
\* click_count is 0.
C21_StopResetsState ==
    [][(ctl_pc = "stop_update" /\ ctl_pc' = "idle") =>
          /\ clicker_status' = "Stopped"
          /\ start_time' = "None"
          /\ click_count' = 0]_vars


\* C22: the displayed status changes only along Stopped -> Running,
\* Running -> Paused, Paused -> Running and Running or Paused -> Stopped, so
\* never from Stopped to Paused; and between the controller's actions the
\* status is Stopped exactly when no worker thread handle exists.
C22_StatusEdges ==
    /\ [][clicker_status' # clicker_status =>
            <<clicker_status, clicker_status'>> \in
                {<<"Stopped", "Running">>, <<"Running", "Paused">>,
                 <<"Paused", "Running">>, <<"Running", "Stopped">>,
                 <<"Paused", "Stopped">>}]_vars
    /\ [](ctl_pc = "idle" =>
            (clicker_status = "Stopped" <=> thread_handle = NoThread))

\* Stop was clicked while the clicker was paused: the status is Stopped again
\* and the handle is gone
C22_Witness ==
    /\ ctl_pc = "idle"
    /\ clicker_status = "Stopped"
    /\ thread_handle = NoThread
    /\ is_paused


\* C23: every completed click iteration increases click_count by exactly 1,
\* as one read-modify-write under the state lock, so no increment is lost
\* when the controller resets the counter concurrently: click_count always
\* equals the number of iterations completed since it was last set to 0.
C23_CountEqualsCompleted ==
    /\ [](click_count = completed)
    /\ [](\A t \in Threads : wpc[t] = "write_count" =>
              mutex = "worker" /\ count_read[t] = click_count)
    /\ [][click_count' # click_count =>
              click_count' = 0 \/ click_count' = click_count + 1]_vars

\* a worker is between the read and the write of its second increment and
\* holds the lock, while the controller is free to click Reset Statistics
C23_Witness ==
    /\ ctl_pc = "idle"
    /\ mutex = "worker"
    /\ \E t \in Threads : wpc[t] = "write_count" /\ count_read[t] = 1

\* C24: the worker holds the state lock only while it clones the
\* configuration and while it increments click_count: whenever it sleeps
\* (pause wait, delay between clicks, movement step, button hold) or issues a
\* pointer move or a button event, it does not hold the lock.
C24_NoLockAcrossSleep ==
    /\ mutex = "worker" =>
          \E t \in Threads : wpc[t] \in {"clone_config", "incr_count", "write_count"}
    /\ \A t \in Threads :
          wpc[t] \in {"pause_wait", "move", "click", "sleep_draw", "sleep_check",
                      "sleep_tick"} => mutex # "worker"

\* the controller holds the lock for the status bar while the worker holds
\* the button down
C24_Witness ==
    /\ mutex = "controller"
    /\ \E t \in Threads : wpc[t] = "click"


\* C25: each of the scales 1.0, 0.9, 0.8, 1.1, 1.2 is evaluated exactly when
\* its scaled template fits inside the screen and is at least 10x10, and is
\* skipped otherwise, independently of the other scales: a template that
\* exceeds the screen at 1.0 but fits at 0.9 or 0.8 is searched there.
C25_ScaleEvaluatedIffFits ==
    find_result # "pending" =>
        \A i \in 1 .. Len(Scales) :
            scores[i] # NotEvaluated <=> ~SkipScale(Scales[i])


\* C26: at every evaluated scale the resampled template has exactly the
\* dimensions scaled_width x scaled_height that bound the scan loops, so
\* every pixel read of the first and the second pass is inside its buffer,
\* for every template size, the non-square ones included.
C26_ReadsInsideTemplate ==
    /\ find_pc # "panicked"
    /\ (/\ find_pc = "scales" /\ scale_index <= Len(Scales)
        /\ ~SkipScale(Scales[scale_index])) =>
          TemplateToUse(Scales[scale_index]) =
              {<<Scaled(template_dim[1], Scales[scale_index]),
                 Scaled(template_dim[2], Scales[scale_index])>>}


\* C27: in a weighted selection, of areas or of click types, with a positive
\* total weight, an entry whose weight is zero is never selected, for every
\* draw in [0, total), the draw 0 included.
C27_ZeroWeightNeverSelected ==
    /\ (/\ fn_call.fn = "get_click_type"
        /\ fn_call.options.randomize_click_type
        /\ SumWeights(WeightsOf(fn_call.options.click_type_weights)) > 0
        /\ fn_result.state = "returned") =>
            \A i \in 1 .. Len(fn_call.options.click_type_weights) :
                fn_call.options.click_type_weights[i][1] = fn_result.value =>
                    fn_call.options.click_type_weights[i][2] > 0
    /\ (/\ fn_call.fn = "get_next_click_area"
        /\ SumWeights(fn_call.config.areas) > 0
        /\ fn_result.state = "returned") =>
            fn_call.config.areas[fn_result.value.area] > 0


\* C28: a pause observed during the delay between two clicks ends that
\* delay: the delay loop returns as soon as it sees the pause flag, and the
\* worker waits again only after its next click, with a newly drawn delay,
\* so after resume() the next click comes without the rest of the delay and
\* two clicks separated by a pause can be closer together than min_delay.
C28_PauseEndsDelay ==
    /\ [][\A t \in Threads :
            (wpc[t] = "sleep_check" /\ is_paused /\ wpc'[t] # "sleep_check")
               => wpc'[t] = "loop"]_vars
    /\ [][\A t \in Threads :
            (wpc'[t] \in {"sleep_check", "sleep_tick"}
                /\ wpc[t] \notin {"sleep_check", "sleep_tick"})
               => wpc[t] = "sleep_draw"]_vars
    /\ [](delay_cut => \A t \in Threads :
                          wpc[t] \notin {"sleep_check", "sleep_tick"})

\* the second click has been counted after a delay that a pause ended before
\* its time was up
C28_Witness ==
    /\ delay_cut
    /\ ~is_paused
    /\ completed = 2
    /\ \E t \in Threads : wpc[t] = "sleep_draw"


\* C29: when the button is pressed, the pointer is within 1 pixel on each
\* axis of the generated point clamped to the screen: simulate_human_movement
\* has returned Ok and leaves it there.
C29_PointerAtTarget ==
    (/\ fn_call.fn = "simulate_human_movement"
     /\ fn_result.state = "returned"
     /\ fn_result.value.result = "Ok") =>
        LET t == ClampedTarget(fn_call.target, fn_call.screen)
        IN /\ Abs(fn_result.value.pointer[1] - t[1]) <= 1
           /\ Abs(fn_result.value.pointer[2] - t[2]) <= 1


\* C30: stop() leaves the pause flag as it was, so after pause() and stop()
\* is_paused() is true while is_running() is false, and only a start() that
\* spawns (or a resume()) clears the flag; pause() and resume() change the
\* pause flag only: not the stop flag, the thread handle or the shared state.
C30_StopKeepsPauseFlag ==
    /\ [][(ctl_pc \in {"idle", "api_join", "api_stopped"}
              /\ ctl_pc' # ctl_pc /\ ctl_pc' # "start_lock"
              /\ ctl_pc' # "already_running")
          => is_paused' = is_paused]_vars
    /\ [](ctl_pc = "api_stopped" => ~is_running)
    /\ [][(is_paused /\ ~is_paused' /\ ctl_pc' # ctl_pc)
          => (ctl_pc = "idle" /\ ctl_pc' = "start_lock" /\ ~should_stop')]_vars
    /\ [][(is_paused' # is_paused /\ ctl_pc' = ctl_pc)
          => UNCHANGED <<should_stop, thread_handle, join_handle,
                         stateVars, workerVars>>]_vars

\* pause() then stop() of a running clicker has returned
C30_Witness ==
    /\ ctl_pc = "api_stopped"
    /\ is_paused
    /\ should_stop
    /\ ~is_running
    /\ \E t \in Threads : wpc[t] = "exited"

====
